---- MODULE Spec2Model ----
(***************************************************************************)
(* Full-Track Music Aggregator: backend/main.py and backend/schemas.py.    *)
(*                                                                         *)
(* Optional[T] values are sequences of length at most one: None is <<>>    *)
(* and a present value x is <<x>>.  Strings that the code inspects         *)
(* (licenses) are sequences of one-character strings; URLs are opaque      *)
(* strings of which only emptiness is observed.  Scores are the code's     *)
(* floats multiplied by ScoreScale, which makes bitrate / 32 exact.        *)
(* Fields of TrackSource and Track that no modelled function reads or      *)
(* writes (source_id, zip_allowed, region, artist, album, cover_url,       *)
(* created_at, Track.duration) are left out of the records.                *)
(***************************************************************************)
EXTENDS Integers, Sequences, FiniteSets, TLC

None == <<>>
Some(x) == <<x>>

\* Python truthiness of Optional[str], Optional[int], Optional[bool]
TruthyStr(v) == v # None /\ v[1] # ""
TruthyInt(v) == v # None /\ v[1] # 0
TruthyBool(v) == v = Some(TRUE)
TruthyText(v) == v # None /\ Len(v[1]) > 0

OptBool == {None, Some(TRUE), Some(FALSE)}

Min(a, b) == IF a < b THEN a ELSE b

(***************************************************************************)
(* schemas.py                                                              *)
(***************************************************************************)
Providers ==
    {"jamendo", "soundcloud", "audiomack", "internet_archive", "user_upload",
     "spotify", "deezer", "youtube", "other"}

METADATA_ONLY_PROVIDERS == {"spotify", "deezer", "youtube"}

\* Arguments in the order: provider_name, stream_url, download_url,
\* streamable, playable, audiodownload_allowed, downloadable, license,
\* bitrate, duration, cors_support
TrackSource(pn, su, du, st, pl, ada, dl, lic, br, dur, cors) ==
    [provider_name |-> pn, stream_url |-> su, download_url |-> du,
     streamable |-> st, playable |-> pl, audiodownload_allowed |-> ada,
     downloadable |-> dl, license |-> lic, bitrate |-> br,
     duration |-> dur, cors_support |-> cors]

Track(title, sources) ==
    [title |-> title, sources |-> sources, best_source_index |-> None]

(***************************************************************************)
(* str.lower() and the substring test `tag in text` on character sequences *)
(***************************************************************************)
LowerChar(c) ==
    CASE c = "A" -> "a" [] c = "B" -> "b" [] c = "C" -> "c" [] c = "D" -> "d"
      [] c = "E" -> "e" [] c = "I" -> "i" [] c = "L" -> "l" [] c = "N" -> "n"
      [] c = "O" -> "o" [] c = "P" -> "p" [] c = "R" -> "r" [] c = "T" -> "t"
      [] c = "U" -> "u" [] c = "V" -> "v" [] c = "Y" -> "y"
      [] OTHER -> c

Lower(text) == [i \in 1..Len(text) |-> LowerChar(text[i])]

Contains(text, tag) ==
    \E i \in 0..(Len(text) - Len(tag)) :
        SubSeq(text, i + 1, i + Len(tag)) = tag

OpenLicenseTags ==
    {<<"c", "c">>,
     <<"c", "r", "e", "a", "t", "i", "v", "e">>,
     <<"p", "u", "b", "l", "i", "c">>,
     <<"j", "a", "m", "e", "n", "d", "o">>}

(***************************************************************************)
(* main.py: score_source.  The result is ScoreScale times the code's float.*)
(***************************************************************************)
ScoreScale == 32

BitrateScore(bitrate) ==
    IF TruthyInt(bitrate) THEN Min(bitrate[1], 10 * ScoreScale) ELSE 0

score_source(s) ==
      (IF TruthyBool(s.streamable) \/ TruthyBool(s.playable)
          THEN 100 * ScoreScale ELSE 0)
    + (IF TruthyBool(s.cors_support) THEN 10 * ScoreScale ELSE 0)
    + BitrateScore(s.bitrate)
    + (IF TruthyInt(s.duration) THEN 5 * ScoreScale ELSE 0)
    + (IF TruthyText(s.license)
          /\ \E tag \in OpenLicenseTags : Contains(Lower(s.license[1]), tag)
          THEN 5 * ScoreScale ELSE 0)
    + (IF TruthyBool(s.audiodownload_allowed) \/ TruthyBool(s.downloadable)
          THEN 2 * ScoreScale ELSE 0)

(***************************************************************************)
(* main.py: normalize_and_filter_sources                                   *)
(***************************************************************************)
\* KeepSource without the explicit-false test of line 59
KeepSource_IgnoresExplicitFalse(s, allow) ==
    /\ ~(s.provider_name \in METADATA_ONLY_PROVIDERS /\ ~allow)
    /\ (TruthyStr(s.stream_url) \/ TruthyStr(s.download_url))
    /\ ~(s.streamable = None /\ s.playable = None /\ ~allow)

\* KeepSource without the URL test of line 57
KeepSource_NoUrlTest(s, allow) ==
    /\ ~(s.provider_name \in METADATA_ONLY_PROVIDERS /\ ~allow)
    /\ ~(s.streamable = Some(FALSE) \/ s.playable = Some(FALSE))
    /\ ~(s.streamable = None /\ s.playable = None /\ ~allow)

\* KeepSource whose unknown-playability test of line 61 forgets the flag
KeepSource_UnknownAlwaysDropped(s, allow) ==
    /\ ~(s.provider_name \in METADATA_ONLY_PROVIDERS /\ ~allow)
    /\ (TruthyStr(s.stream_url) \/ TruthyStr(s.download_url))
    /\ ~(s.streamable = Some(FALSE) \/ s.playable = Some(FALSE))
    /\ ~(s.streamable = None /\ s.playable = None)

KeepSource(s, allow) ==
    /\ ~(s.provider_name \in METADATA_ONLY_PROVIDERS /\ ~allow)
    /\ (TruthyStr(s.stream_url) \/ TruthyStr(s.download_url))
    /\ ~(s.streamable = Some(FALSE) \/ s.playable = Some(FALSE))
    /\ ~(s.streamable = None /\ s.playable = None /\ ~allow)

normalize_and_filter_sources(sources, allow) ==
    SelectSeq(sources, LAMBDA s : KeepSource(s, allow))

(***************************************************************************)
(* main.py: best-source selection in search_tracks (lines 263-264).        *)
(* max(range(len(scores)), key=...) scans left to right and replaces its   *)
(* candidate only on a strictly greater key.  Indexes here are 1-based;    *)
(* SelectBest converts to the code's 0-based index.                        *)
(***************************************************************************)
\* MaxScan replacing its candidate on ties as well (last maximum wins)
RECURSIVE MaxScan_LastWins(_, _, _)
MaxScan_LastWins(scores, i, best) ==
    IF i > Len(scores) THEN best
    ELSE MaxScan_LastWins(scores, i + 1,
                          IF scores[i] >= scores[best] THEN i ELSE best)

RECURSIVE MaxScan(_, _, _)
MaxScan(scores, i, best) ==
    IF i > Len(scores) THEN best
    ELSE MaxScan(scores, i + 1, IF scores[i] > scores[best] THEN i ELSE best)

SelectBest(scores) == MaxScan(scores, 2, 1) - 1

Scores(sources) == [i \in 1..Len(sources) |-> score_source(sources[i])]

(***************************************************************************)
(* main.py: body of the inner loop of search_tracks (lines 258-266).       *)
(* ProcessTrack gives the tracks appended to merged for one input track:   *)
(* the empty sequence when the track is skipped, else the updated track.   *)
(***************************************************************************)
\* ProcessTrack skipping every track left without sources (line 260
\* without its `and not allow_metadata_only`)
ProcessTrack_DropsEmpty(tr, allow) ==
    LET kept == normalize_and_filter_sources(tr.sources, allow)
        tr1 == [tr EXCEPT !.sources = kept]
    IN  IF kept = <<>> THEN <<>>
        ELSE <<[tr1 EXCEPT !.best_source_index =
                               Some(SelectBest(Scores(kept)))]>>

ProcessTrack(tr, allow) ==
    LET kept == normalize_and_filter_sources(tr.sources, allow)
        tr1 == [tr EXCEPT !.sources = kept]
    IN  IF kept = <<>> /\ ~allow THEN <<>>
        ELSE IF kept # <<>>
             THEN <<[tr1 EXCEPT !.best_source_index =
                                    Some(SelectBest(Scores(kept)))]>>
             ELSE <<tr1>>

RECURSIVE ProcessTracks(_, _)
ProcessTracks(tracks, allow) ==
    IF tracks = <<>> THEN <<>>
    ELSE ProcessTrack(Head(tracks), allow) \o ProcessTracks(Tail(tracks), allow)

(***************************************************************************)
(* Upstream HTTP exchange as seen by an adapter.  kind is what the await   *)
(* of client.get and the following r.json() meet:                          *)
(*   network_error, timeout : client.get raises                            *)
(*   bad_status             : a 4xx/5xx response                           *)
(*   malformed              : status 200 whose body is not JSON            *)
(*   ok                     : status 200 with the listed items             *)
(***************************************************************************)
ErrorKinds == {"network_error", "timeout", "bad_status", "malformed"}

Returned(tracks) == [raised |-> FALSE, tracks |-> tracks]
Raised == [raised |-> TRUE, tracks |-> <<>>]

\* ---- search_jamendo ----------------------------------------------------
jamendo_source(t) ==
    LET license_name == IF TruthyText(t.license) THEN t.license ELSE t.cc_name
        stream_url == t.audio
        download_url == IF t.audiodownload_allowed THEN t.audiodownload
                        ELSE None
    IN  TrackSource("jamendo", stream_url, download_url,
                    Some(TruthyStr(stream_url)), Some(TruthyStr(stream_url)),
                    Some(t.audiodownload_allowed),
                    Some(TruthyStr(download_url)), license_name, None,
                    IF TruthyInt(t.duration) THEN t.duration ELSE None,
                    Some(TRUE))

RECURSIVE jamendo_tracks(_, _)
jamendo_tracks(items, i) ==
    IF i > Len(items) THEN <<>>
    ELSE <<Track(<<"jamendo", i>>, <<jamendo_source(items[i])>>)>>
         \o jamendo_tracks(items, i + 1)

search_jamendo(resp) ==
    IF resp.kind # "ok" THEN Raised
    ELSE Returned(jamendo_tracks(resp.items, 1))

\* ---- search_soundcloud -------------------------------------------------
AllowedProtocols == {"progressive", "hls"}

RECURSIVE FirstTranscoding(_, _)
FirstTranscoding(transcodings, i) ==
    IF i > Len(transcodings) THEN None
    ELSE IF transcodings[i].protocol \in AllowedProtocols
            /\ TruthyStr(transcodings[i].url)
         THEN Some("transcoding-url?client_id=SOUNDCLOUD_CLIENT_ID")
         ELSE FirstTranscoding(transcodings, i + 1)

soundcloud_duration(ms) ==
    IF TruthyInt(ms) THEN Some(ms[1] \div 1000) ELSE None

soundcloud_source(t, stream_url) ==
    TrackSource("soundcloud", stream_url, None, Some(TRUE), Some(TRUE),
                None, None, t.license, None, soundcloud_duration(t.duration),
                Some(TRUE))

RECURSIVE soundcloud_tracks(_, _)
soundcloud_tracks(items, i) ==
    IF i > Len(items) THEN <<>>
    ELSE LET t == items[i]
             transcodings == IF t.media = None THEN <<>> ELSE t.media[1]
             stream_url == FirstTranscoding(transcodings, 1)
             rest == soundcloud_tracks(items, i + 1)
         IN  IF ~(t.streamable \/ t.media # None) THEN rest
             ELSE IF ~TruthyStr(stream_url) THEN rest
             ELSE <<Track(<<"soundcloud", i>>,
                          <<soundcloud_source(t, stream_url)>>)>> \o rest

search_soundcloud(resp) ==
    IF resp.kind # "ok" THEN Raised
    ELSE Returned(soundcloud_tracks(resp.items, 1))

\* ---- search_audiomack --------------------------------------------------
audiomack_source(t) ==
    TrackSource("audiomack", t.streaming_url, None, Some(TRUE), Some(TRUE),
                None, None, t.license, None, t.duration, Some(TRUE))

RECURSIVE audiomack_tracks(_, _)
audiomack_tracks(items, i) ==
    IF i > Len(items) THEN <<>>
    ELSE LET rest == audiomack_tracks(items, i + 1)
         IN  IF ~TruthyStr(items[i].streaming_url) THEN rest
             ELSE <<Track(<<"audiomack", i>>,
                          <<audiomack_source(items[i])>>)>> \o rest

search_audiomack(resp) ==
    IF resp.kind \in {"network_error", "timeout"} THEN Raised
    ELSE IF resp.kind = "bad_status" THEN Returned(<<>>)
    ELSE IF resp.kind = "malformed" THEN Raised
    ELSE Returned(audiomack_tracks(resp.items, 1))

\* ---- search_internet_archive -------------------------------------------
internet_archive_source(doc) ==
    TrackSource("internet_archive", Some("archive-download-url"), None,
                Some(TRUE), Some(TRUE), None, None, doc.licenseurl, None,
                None, Some(TRUE))

RECURSIVE internet_archive_tracks(_, _)
internet_archive_tracks(docs, i) ==
    IF i > Len(docs) THEN <<>>
    ELSE LET rest == internet_archive_tracks(docs, i + 1)
         IN  IF ~TruthyStr(docs[i].identifier) THEN rest
             ELSE <<Track(<<"internet_archive", i>>,
                          <<internet_archive_source(docs[i])>>)>> \o rest

search_internet_archive(resp) ==
    IF resp.kind \in {"network_error", "timeout"} THEN Raised
    ELSE IF resp.kind = "bad_status" THEN Returned(<<>>)
    ELSE IF resp.kind = "malformed" THEN Raised
    ELSE Returned(internet_archive_tracks(resp.items, 1))

(***************************************************************************)
(* Upstream payloads the adapters are run against                          *)
(***************************************************************************)
MaxItems == 2

\* Most tracks the four adapters of one request hand back in total
MaxTracks == 3

SeqsUpTo(S, n) == UNION {[1..k -> S] : k \in 0..n}

Text_CC_BY == <<"C", "C", " ", "B", "Y">>

JamendoItems ==
    {[license |-> None, cc_name |-> Some(Text_CC_BY),
      audio |-> Some("audio-url"), audiodownload |-> Some("download-url"),
      audiodownload_allowed |-> TRUE, duration |-> Some(200)],
     [license |-> None, cc_name |-> None,
      audio |-> Some(""), audiodownload |-> Some("download-url"),
      audiodownload_allowed |-> TRUE, duration |-> Some(0)]}

SoundcloudItems ==
    {[streamable |-> TRUE, license |-> None, duration |-> Some(215999),
      media |-> Some(<<[protocol |-> "rtmp", url |-> Some("rtmp-url")],
                       [protocol |-> "hls", url |-> Some("hls-url")]>>)],
     [streamable |-> TRUE, license |-> None, duration |-> Some(215999),
      media |-> None]}

AudiomackItems ==
    {[streaming_url |-> Some("audiomack-url"), license |-> None,
      duration |-> Some(180)],
     [streaming_url |-> None, license |-> None, duration |-> Some(180)]}

InternetArchiveDocs ==
    {[identifier |-> Some("item"), licenseurl |-> None],
     [identifier |-> None, licenseurl |-> None]}

\* provider_calls of search_tracks, in invocation order
provider_calls == <<"jamendo", "soundcloud", "audiomack", "internet_archive">>

Adapters == {provider_calls[i] : i \in 1..Len(provider_calls)}

Items(p) ==
    CASE p = "jamendo" -> JamendoItems
      [] p = "soundcloud" -> SoundcloudItems
      [] p = "audiomack" -> AudiomackItems
      [] p = "internet_archive" -> InternetArchiveDocs

Responses(p) ==
    {[kind |-> k, items |-> <<>>] : k \in ErrorKinds}
    \cup {[kind |-> "ok", items |-> its] : its \in SeqsUpTo(Items(p), MaxItems)}

\* The part of each adapter after its await of client.get
AdapterResult(p, resp) ==
    CASE p = "jamendo" -> search_jamendo(resp)
      [] p = "soundcloud" -> search_soundcloud(resp)
      [] p = "audiomack" -> search_audiomack(resp)
      [] p = "internet_archive" -> search_internet_archive(resp)

\* The guard at the top of each adapter: TRUE when the adapter returns []
\* before building a request (main.py lines 68-69 and 115-116)
ShortCircuits(p, e) ==
    CASE p = "jamendo" -> e.JAMENDO_CLIENT_ID = ""
      [] p = "soundcloud" -> e.SOUNDCLOUD_CLIENT_ID = ""
      [] p = "audiomack" -> FALSE
      [] p = "internet_archive" -> FALSE

CredentialValues == {"", "configured"}

Environments ==
    [JAMENDO_CLIENT_ID : CredentialValues,
     SOUNDCLOUD_CLIENT_ID : CredentialValues,
     AUDIOMACK_API_KEY : CredentialValues]

(***************************************************************************)
(* asyncio.gather with return_exceptions=True, as awaited inside the  *)
(* try/except of search_tracks: done says whether the await has completed, *)
(* failed whether it completed by raising (the except branch), values is   *)
(* the result list, one entry per awaitable in the order they were passed. *)
(***************************************************************************)
Settled(st) == st \in {"returned", "raised"}

\* gather with return_exceptions=False: the await raises as soon as one
\* awaitable raises, and search_tracks falls into its except branch
gather_FailFast(task, result, order) ==
    [done |-> \/ \E p \in Adapters : task[p] = "raised"
              \/ \A p \in Adapters : Settled(task[p]),
     failed |-> \E p \in Adapters : task[p] = "raised",
     values |-> [i \in 1..Len(provider_calls) |-> result[provider_calls[i]]]]

\* gather handing back the results in completion order
gather_CompletionOrder(task, result, order) ==
    [done |-> \A p \in Adapters : Settled(task[p]),
     failed |-> FALSE,
     values |-> IF Len(order) = Len(provider_calls)
                   THEN [i \in 1..Len(provider_calls) |-> result[order[i]]]
                   ELSE <<>>]

gather(task, result, order) ==
    [done |-> \A p \in Adapters : Settled(task[p]),
     failed |-> FALSE,
     values |-> [i \in 1..Len(provider_calls) |-> result[provider_calls[i]]]]

\* The merge loop of search_tracks (lines 254-266)
RECURSIVE Merge(_, _)
Merge(results_nested, allow) ==
    IF results_nested = <<>> THEN <<>>
    ELSE LET provider_results == Head(results_nested)
         IN  (IF provider_results.raised \/ provider_results.tracks = <<>>
                 THEN <<>>
                 ELSE ProcessTracks(provider_results.tracks, allow))
             \o Merge(Tail(results_nested), allow)

(***************************************************************************)
(* State                                                                   *)
(***************************************************************************)
VARIABLES
    env,                 \* the three credentials read at import time
    pc,                  \* position of the search_tracks handler
    allow_metadata_only, \* query parameter of the request
    task,                \* per adapter: created, awaiting, returned, raised
    upstream,            \* per adapter: what its HTTP exchange met
    result,              \* per adapter: what the call settled with
    requested,           \* adapters that issued an outbound request
    order,               \* adapters in the order their calls settled
    response,            \* the handler's response, None until it returns
    track,               \* track-pipeline harness: the track under work
    source,              \* scorer harness: the source under work
    score                \* scorer harness: its score, None until computed

vars == <<env, pc, allow_metadata_only, task, upstream, result, requested,
          order, response, track, source, score>>

Pending == [raised |-> FALSE, tracks |-> <<>>]

Init ==
    /\ env \in Environments
    /\ pc = "idle"
    /\ allow_metadata_only = FALSE
    /\ task = [p \in Adapters |-> "created"]
    /\ upstream = [p \in Adapters |-> "none"]
    /\ result = [p \in Adapters |-> Pending]
    /\ requested = {}
    /\ order = <<>>
    /\ response = None
    /\ track = None
    /\ source = None
    /\ score = None

\* GET /search arrives; the handler builds provider_calls and awaits gather
SearchRequest(allow) ==
    /\ pc = "idle"
    /\ pc' = "gathering"
    /\ allow_metadata_only' = allow
    /\ UNCHANGED <<env, task, upstream, result, requested, order, response,
                   track, source, score>>

\* An adapter coroutine runs up to its first await
AdapterStart(p) ==
    /\ pc # "idle"
    /\ task[p] = "created"
    /\ IF ShortCircuits(p, env)
          THEN /\ task' = [task EXCEPT ![p] = "returned"]
               /\ result' = [result EXCEPT ![p] = Returned(<<>>)]
               /\ order' = Append(order, p)
               /\ UNCHANGED requested
          ELSE /\ task' = [task EXCEPT ![p] = "awaiting"]
               /\ requested' = requested \cup {p}
               /\ UNCHANGED <<result, order>>
    /\ UNCHANGED <<env, pc, allow_metadata_only, upstream, response, track,
                   source, score>>

\* The HTTP exchange of an adapter completes with resp and the adapter runs
\* to its end
AdapterSettle(p, resp) ==
    /\ task[p] = "awaiting"
    /\ LET r == AdapterResult(p, resp)
       IN  /\ task' = [task EXCEPT
                          ![p] = IF r.raised THEN "raised" ELSE "returned"]
           /\ result' = [result EXCEPT ![p] = r]
    /\ order' = Append(order, p)
    /\ UNCHANGED <<env, pc, allow_metadata_only, requested, response, track,
                   source, score>>

\* Tracks handed back so far by the adapters of the request
RECURSIVE TrackCount(_, _)
TrackCount(res, i) ==
    IF i > Len(provider_calls) THEN 0
    ELSE Len(res[provider_calls[i]].tracks) + TrackCount(res, i + 1)

AdapterRespond(p) ==
    /\ \E resp \in Responses(p) : AdapterSettle(p, resp)
    /\ TrackCount(result', 1) <= MaxTracks
    /\ UNCHANGED upstream

\* gather completes; the handler merges and returns without another await
Finish ==
    /\ pc = "gathering"
    /\ LET g == gather(task, result, order)
           results_nested == IF g.failed THEN <<>> ELSE g.values
       IN  /\ g.done
           /\ response' = Some([status |-> 200,
                                results |-> Merge(results_nested,
                                                  allow_metadata_only)])
    /\ pc' = "done"
    /\ UNCHANGED <<env, allow_metadata_only, task, upstream, result,
                   requested, order, track, source, score>>

Next ==
    \/ \E allow \in BOOLEAN : SearchRequest(allow)
    \/ \E p \in Adapters : AdapterStart(p)
    \/ \E p \in Adapters : AdapterRespond(p)
    \/ Finish

Spec == Init /\ [][Next]_vars

(***************************************************************************)
(* One adapter coroutine awaited directly by a caller, with the upstream   *)
(* exchange it met kept in `upstream`.                                     *)
(***************************************************************************)
InitAdapter ==
    /\ env \in Environments
    /\ pc = "direct"
    /\ allow_metadata_only = FALSE
    /\ task = [p \in Adapters |-> "created"]
    /\ upstream = [p \in Adapters |-> "none"]
    /\ result = [p \in Adapters |-> Pending]
    /\ requested = {}
    /\ order = <<>>
    /\ response = None
    /\ track = None
    /\ source = None
    /\ score = None

DirectCall(p) ==
    /\ \A q \in Adapters : task[q] = "created"
    /\ AdapterStart(p)

DirectRespond(p) ==
    \E resp \in Responses(p) :
        /\ AdapterSettle(p, resp)
        /\ upstream' = [upstream EXCEPT ![p] = resp.kind]

NextAdapter ==
    \/ \E p \in Adapters : DirectCall(p)
    \/ \E p \in Adapters : DirectRespond(p)

SpecAdapter == InitAdapter /\ [][NextAdapter]_vars

(***************************************************************************)
(* The per-track part of search_tracks run on one track of a provider's    *)
(* result list.  A track carries either at most one source drawn from      *)
(* every combination of the fields the filter reads, or up to MaxSources   *)
(* sources drawn from a smaller set that varies policy and score together. *)
(***************************************************************************)
MaxSources == 2

OptUrl(url) == {None, Some(""), Some(url)}

PolicySources ==
    {TrackSource(p, su, du, st, pl, None, None, None, None, None, None) :
        p \in Providers, su \in OptUrl("stream-url"),
        du \in {None, Some("download-url")}, st \in OptBool, pl \in OptBool}

RankedSources ==
    {TrackSource(p, su, None, st, None, None, None, None, br, None, None) :
        p \in {"other", "youtube"}, su \in {None, Some("stream-url")},
        st \in OptBool, br \in {None, Some(128), Some(320)}}

TrackInputs ==
    {Track("t", srcs) : srcs \in SeqsUpTo(PolicySources, 1)}
    \cup {Track("t", srcs) : srcs \in SeqsUpTo(RankedSources, MaxSources)}

InitTrack ==
    /\ env \in {[JAMENDO_CLIENT_ID |-> "", SOUNDCLOUD_CLIENT_ID |-> "",
                 AUDIOMACK_API_KEY |-> ""]}
    /\ pc = "merging"
    /\ allow_metadata_only \in BOOLEAN
    /\ task = [p \in Adapters |-> "returned"]
    /\ upstream = [p \in Adapters |-> "none"]
    /\ result = [p \in Adapters |-> Pending]
    /\ requested = {}
    /\ order = <<>>
    /\ response = None
    /\ track \in {Some(tr) : tr \in TrackInputs}
    /\ source = None
    /\ score = None

\* One iteration of `for tr in provider_results`, then the return
HandleTrack ==
    /\ pc = "merging"
    /\ response' = Some([status |-> 200,
                         results |-> ProcessTrack(track[1],
                                                  allow_metadata_only)])
    /\ pc' = "done"
    /\ UNCHANGED <<env, allow_metadata_only, task, upstream, result,
                   requested, order, track, source, score>>

NextTrack == HandleTrack

SpecTrack == InitTrack /\ [][NextTrack]_vars

(***************************************************************************)
(* score_source run on one TrackSource                                     *)
(***************************************************************************)
MaxBitrate == 10000

Text_Copyright == <<"C", "o", "p", "y", "r", "i", "g", "h", "t">>

Bitrates ==
    {None} \cup {Some(b) : b \in {-MaxBitrate, -32, 0, 32, 128, 320, 352,
                                   MaxBitrate}}

ScoredSources ==
    {TrackSource("other", Some("stream-url"), None, st, pl, ada, dl, lic, br,
                 du, cors) :
        st \in OptBool, pl \in OptBool, ada \in OptBool, dl \in OptBool,
        lic \in {None, Some(<<>>), Some(Text_CC_BY), Some(Text_Copyright)},
        br \in Bitrates, du \in {None, Some(0), Some(200)},
        cors \in OptBool}

InitScore ==
    /\ env \in {[JAMENDO_CLIENT_ID |-> "", SOUNDCLOUD_CLIENT_ID |-> "",
                 AUDIOMACK_API_KEY |-> ""]}
    /\ pc = "scoring"
    /\ allow_metadata_only = FALSE
    /\ task = [p \in Adapters |-> "created"]
    /\ upstream = [p \in Adapters |-> "none"]
    /\ result = [p \in Adapters |-> Pending]
    /\ requested = {}
    /\ order = <<>>
    /\ response = None
    /\ track = None
    /\ source \in {Some(s) : s \in ScoredSources}
    /\ score = None

ScoreSource ==
    /\ pc = "scoring"
    /\ score' = Some(score_source(source[1]))
    /\ pc' = "done"
    /\ UNCHANGED <<env, allow_metadata_only, task, upstream, result,
                   requested, order, response, track, source>>

NextScore == ScoreSource

SpecScore == InitScore /\ [][NextScore]_vars

(***************************************************************************)
(* Properties                                                              *)
(***************************************************************************)
Range(f) == {f[i] : i \in DOMAIN f}

Results == IF response = None THEN <<>> ELSE response[1].results

\* Sources of the track the handler of SpecTrack emitted, if it emitted one
EmittedSources == IF Results = <<>> THEN <<>> ELSE Results[1].sources

Rank(p) == CHOOSE i \in 1..Len(provider_calls) : provider_calls[i] = p

HasUrl(s) == TruthyStr(s.stream_url) \/ TruthyStr(s.download_url)

\* C1: every adapter call completes by returning; each upstream failure
\* (network error, timeout, non-success status, malformed payload) ends in
\* an empty track list and never in an exception raised to the caller.
C1_AdaptersNeverRaise ==
    \A p \in Adapters :
        /\ task[p] # "raised"
        /\ upstream[p] \in ErrorKinds =>
              task[p] = "returned" /\ result[p].tracks = <<>>

\* C2: search_tracks returns only after all four adapter calls settled, no
\* call is cancelled, the response is a success, and its results are exactly
\* the surviving tracks of the adapters that returned; when every adapter
\* failed or returned nothing the results are empty.
C2_FaultIsolation ==
    pc = "done" =>
        /\ \A p \in Adapters : Settled(task[p])
        /\ response # None
        /\ response[1].status = 200
        /\ {tr.title : tr \in Range(Results)} =
              {tr.title : tr \in
                  {t \in UNION {Range(result[p].tracks) :
                                   p \in {q \in Adapters :
                                             task[q] = "returned"}} :
                      \/ allow_metadata_only
                      \/ \E s \in Range(t.sources) :
                            KeepSource(s, allow_metadata_only)}}
        /\ Cardinality({tr.title : tr \in Range(Results)}) = Len(Results)
        /\ (\A p \in Adapters :
               task[p] = "raised" \/ result[p].tracks = <<>>)
              => Results = <<>>

C2_Witness ==
    /\ pc = "done"
    /\ \E p \in Adapters : task[p] = "raised"
    /\ \E p \in Adapters : task[p] = "returned" /\ result[p].tracks # <<>>
    /\ Results # <<>>

\* C3: whatever the completion order, the merged results list the providers
\* in invocation order (jamendo, soundcloud, audiomack, internet_archive)
\* and each provider's tracks in the order its adapter returned them.
C3_InvocationOrder ==
    \A i \in 1..Len(Results) : \A j \in 1..Len(Results) :
        i < j =>
            \/ Rank(Results[i].title[1]) < Rank(Results[j].title[1])
            \/ /\ Results[i].title[1] = Results[j].title[1]
               /\ Results[i].title[2] < Results[j].title[2]

C3_Witness ==
    /\ pc = "done"
    /\ order[1] = "internet_archive"
    /\ order[Len(order)] = "jamendo"
    /\ Len(Results) = 3
    /\ Results[1].title = <<"jamendo", 1>>
    /\ Results[2].title = <<"jamendo", 2>>
    /\ Results[3].title[1] = "internet_archive"

\* C4: a credentialed adapter (jamendo, soundcloud, audiomack) whose
\* credential is empty returns an empty list and issues no outbound request.
C4_NoRequestWithoutCredential ==
    /\ env.JAMENDO_CLIENT_ID = "" =>
          /\ "jamendo" \notin requested
          /\ result["jamendo"].tracks = <<>>
    /\ env.SOUNDCLOUD_CLIENT_ID = "" =>
          /\ "soundcloud" \notin requested
          /\ result["soundcloud"].tracks = <<>>
    /\ env.AUDIOMACK_API_KEY = "" =>
          /\ "audiomack" \notin requested
          /\ result["audiomack"].tracks = <<>>

\* C5: no source that leaves the filter (and so none in a response) has
\* streamable explicitly false, playable explicitly false, or neither a
\* stream_url nor a download_url, whatever allow_metadata_only is.
C5_FilterExcludesUnplayable ==
    \A tr \in Range(Results) : \A s \in Range(tr.sources) :
        /\ s.streamable # Some(FALSE)
        /\ s.playable # Some(FALSE)
        /\ HasUrl(s)

C5_Witness ==
    /\ pc = "done"
    /\ allow_metadata_only
    /\ Len(track[1].sources) = 2
    /\ ~HasUrl(track[1].sources[1])
    /\ track[1].sources[2].streamable = None
    /\ Len(EmittedSources) = 1

\* C6: a source of a metadata-only provider is excluded when
\* allow_metadata_only is false, and included when it is true provided the
\* source has a URL and neither streamable nor playable is explicitly false.
C6_MetadataOnlyPolicy ==
    pc = "done" =>
        \A s \in Range(track[1].sources) :
            s.provider_name \in {"spotify", "deezer", "youtube"} =>
                /\ ~allow_metadata_only => s \notin Range(EmittedSources)
                /\ ( /\ allow_metadata_only
                     /\ HasUrl(s)
                     /\ s.streamable # Some(FALSE)
                     /\ s.playable # Some(FALSE) )
                      => s \in Range(EmittedSources)

C6_Witness ==
    /\ pc = "done"
    /\ allow_metadata_only
    /\ Len(track[1].sources) = 1
    /\ track[1].sources[1].provider_name = "deezer"
    /\ track[1].sources[1].streamable = None
    /\ track[1].sources[1].playable = None
    /\ EmittedSources = track[1].sources

\* C7: a track left without sources by the filter is in the results exactly
\* when allow_metadata_only is true, and then with an empty sources list and
\* no best_source_index; with allow_metadata_only false a track whose only
\* source is of a metadata-only provider is absent.
C7_EmptyTrackPolicy ==
    pc = "done" =>
        /\ (\A s \in Range(track[1].sources) :
               ~KeepSource(s, allow_metadata_only))
              => /\ Results # <<>> <=> allow_metadata_only
                 /\ Results # <<>> =>
                       /\ Results[1].sources = <<>>
                       /\ Results[1].best_source_index = None
        /\ ( /\ ~allow_metadata_only
             /\ Len(track[1].sources) = 1
             /\ track[1].sources[1].provider_name \in METADATA_ONLY_PROVIDERS )
              => Results = <<>>

C7_Witness ==
    /\ pc = "done"
    /\ allow_metadata_only
    /\ Len(track[1].sources) = 1
    /\ track[1].sources[1].provider_name = "spotify"
    /\ track[1].sources[1].streamable = Some(FALSE)
    /\ Len(Results) = 1
    /\ Results[1].sources = <<>>

\* C8: for a response track with sources, best_source_index is a valid index
\* and is the lowest index whose score is the maximum over the sources.
C8_BestIsFirstMaximum ==
    \A tr \in Range(Results) :
        tr.sources # <<>> =>
            /\ tr.best_source_index # None
            /\ tr.best_source_index[1] \in 0..(Len(tr.sources) - 1)
            /\ LET b == tr.best_source_index[1] + 1
               IN  /\ \A j \in 1..Len(tr.sources) :
                          score_source(tr.sources[j])
                              <= score_source(tr.sources[b])
                   /\ \A j \in 1..(b - 1) :
                          score_source(tr.sources[j])
                              < score_source(tr.sources[b])

C8_Witness ==
    /\ pc = "done"
    /\ Len(EmittedSources) = 2
    /\ score_source(EmittedSources[1]) = score_source(EmittedSources[2])
    /\ EmittedSources[1] # EmittedSources[2]
    /\ Results[1].best_source_index = Some(0)

\* C9: score_source is non-negative for every TrackSource the schema admits,
\* and the bitrate term is non-decreasing in bitrate and at most 10.
C9_ScoreNonNegative ==
    score # None =>
        /\ score[1] >= 0
        /\ BitrateScore(source[1].bitrate) <= 10 * ScoreScale
        /\ \A b \in Bitrates \ {None} :
              (source[1].bitrate # None /\ b[1] <= source[1].bitrate[1])
                  => BitrateScore(b) <= BitrateScore(source[1].bitrate)

\* C10: with allow_metadata_only false every response track has a source and
\* a best_source_index, and every source is of a provider outside the
\* metadata-only set, has neither flag explicitly false, has streamable or
\* playable true, and scores at least 100.
C10_DefaultResponsePlayable ==
    (pc = "done" /\ ~allow_metadata_only) =>
        \A tr \in Range(Results) :
            /\ tr.sources # <<>>
            /\ tr.best_source_index # None
            /\ \A s \in Range(tr.sources) :
                  /\ s.provider_name \notin {"spotify", "deezer", "youtube"}
                  /\ s.streamable # Some(FALSE)
                  /\ s.playable # Some(FALSE)
                  /\ s.streamable = Some(TRUE) \/ s.playable = Some(TRUE)
                  /\ score_source(s) >= 100 * ScoreScale

C10_Witness ==
    /\ pc = "done"
    /\ ~allow_metadata_only
    /\ Len(result["jamendo"].tracks) = 2
    /\ result["jamendo"].tracks[1].sources[1].streamable = Some(FALSE)
    /\ result["jamendo"].tracks[2].sources[1].streamable = Some(TRUE)
    /\ Len(Results) = 1
    /\ Results[1].title = <<"jamendo", 2>>

====
